---- MODULE Spec2Model ----
(***************************************************************************)
(* Model of package cookie (src/cookie.go): plain, signed and encrypted    *)
(* HTTP cookies.                                                           *)
(*                                                                         *)
(* Byte strings (Go strings and []byte) are sequences of numbers 0..255.   *)
(* The response is the set of Set-Cookie headers emitted so far, the       *)
(* request carries at most one cookie.  The client between response and    *)
(* request may return a cookie unchanged, under another name, with one bit *)
(* of its value flipped, or with the value behind a signature replaced.    *)
(*                                                                         *)
(* Library code is modelled by what it computes: encoding/base64 bit for   *)
(* bit, strconv and strings character for character, net/http by the rules *)
(* that decide whether a cookie is serialised and found.  The two          *)
(* cryptographic primitives are idealised: the tags of HMAC-SHA256 and of  *)
(* AES-GCM differ whenever what they authenticate differs, and nobody      *)
(* without the secret holds a tag that a holder of the secret did not make.*)
(***************************************************************************)
EXTENDS Integers, Sequences, FiniteSets, TLC

VARIABLES
    headers,  \* the Set-Cookie headers on the response, each with the call that made it
    writes,   \* how many writes have been called on the response
    req,      \* the cookie on the request, if it carries one
    last      \* the last call of the package and what it returned

vars == <<headers, writes, req, last>>

----------------------------------------------------------------------------
(* Bytes and bits *)

Bit(c, b) == (c \div (2^b)) % 2

FlipBit(c, b) == IF Bit(c, b) = 1 THEN c - 2^b ELSE c + 2^b

Xor8(x, y) ==
    LET X(b) == ((Bit(x, b) + Bit(y, b)) % 2) * 2^b
    IN  X(0) + X(1) + X(2) + X(3) + X(4) + X(5) + X(6) + X(7)

RECURSIVE SumBytes(_)
SumBytes(s) == IF s = <<>> THEN 0 ELSE s[1] + SumBytes(Tail(s))

Rep(n, c) == [i \in 1..n |-> c]

----------------------------------------------------------------------------
(* encoding/base64: URLEncoding, padded, not strict *)

encodeURL(v) ==
    IF v < 26 THEN 65 + v
    ELSE IF v < 52 THEN 71 + v
    ELSE IF v < 62 THEN v - 4
    ELSE IF v = 62 THEN 45 ELSE 95

decodeURL(c) ==
    IF c \in 65..90 THEN c - 65
    ELSE IF c \in 97..122 THEN c - 71
    ELSE IF c \in 48..57 THEN c + 4
    ELSE IF c = 45 THEN 62
    ELSE IF c = 95 THEN 63 ELSE -1

\* '='
PadChar == 61

EncodeToString(src) ==
    LET n == Len(src)
        At(j) == IF j <= n THEN src[j] ELSE 0
        Quantum(g) == At(3*g + 1) * 65536 + At(3*g + 2) * 256 + At(3*g + 3)
        Char(i) ==
            LET g == (i - 1) \div 4
                p == (i - 1) % 4
            IN  IF 3*g + p > n THEN PadChar
                ELSE encodeURL((Quantum(g) \div (64^(3 - p))) % 64)
    IN  [i \in 1..(4 * ((n + 2) \div 3)) |-> Char(i)]

\* The decoder wants whole quanta of four characters, padding only as the
\* last one or two characters, and every other character in the alphabet.
\* It is not strict: the bits of the last character that reach past the last
\* whole byte are dropped without a look.
DecodeString(s) ==
    LET L == Len(s)
        pad == IF L >= 2 /\ s[L] = PadChar
               THEN (IF s[L - 1] = PadChar THEN 2 ELSE 1)
               ELSE 0
        dataLen == L - pad
        D(i) == IF i <= dataLen THEN decodeURL(s[i]) ELSE 0
        Quantum(g) == D(4*g + 1) * 262144 + D(4*g + 2) * 4096
                      + D(4*g + 3) * 64 + D(4*g + 4)
        n == 3 * (L \div 4) - pad
        Byte(j) == (Quantum((j - 1) \div 3) \div (256^(2 - ((j - 1) % 3)))) % 256
    IN  IF L % 4 = 0 /\ \A i \in 1..dataLen : decodeURL(s[i]) >= 0
        THEN [ok |-> TRUE, bytes |-> [j \in 1..n |-> Byte(j)]]
        ELSE [ok |-> FALSE, bytes |-> <<>>]

----------------------------------------------------------------------------
(* strconv and strings *)

RECURSIVE Digits(_)
Digits(n) == IF n < 10 THEN <<48 + n>> ELSE Digits(n \div 10) \o <<48 + (n % 10)>>

\* fmt's %d
Itoa(i) == IF i < 0 THEN <<45>> \o Digits(0 - i) ELSE Digits(i)

RECURSIVE DigitsValue(_)
DigitsValue(s) ==
    IF s = <<>> THEN 0
    ELSE 10 * DigitsValue(SubSeq(s, 1, Len(s) - 1)) + (s[Len(s)] - 48)

\* strconv.Atoi: an optional sign, then one or more decimal digits.
Atoi(s) ==
    LET signChar == s # <<>> /\ s[1] \in {43, 45}
        body == IF signChar THEN Tail(s) ELSE s
    IN  IF body # <<>> /\ \A i \in 1..Len(body) : body[i] \in 48..57
        THEN [ok |-> TRUE,
              n |-> IF signChar /\ s[1] = 45 THEN 0 - DigitsValue(body)
                    ELSE DigitsValue(body)]
        ELSE [ok |-> FALSE, n |-> 0]

\* strings.Cut(s, ":")
Cut(s) ==
    LET hits == {i \in 1..Len(s) : s[i] = 58}
    IN  IF hits = {} THEN [before |-> s, after |-> <<>>, found |-> FALSE]
        ELSE LET i == CHOOSE h \in hits : \A g \in hits : h <= g
             IN  [before |-> SubSeq(s, 1, i - 1),
                  after |-> SubSeq(s, i + 1, Len(s)),
                  found |-> TRUE]

----------------------------------------------------------------------------
(* Errors: the message that tells the failure, and the errors of its chain
   (what errors.Is finds). *)

Err(msg, chain) == [msg |-> msg, is |-> chain]

Nil == Err("", {})

ErrCookie == Err("cookie failure", {"ErrCookie"})

ErrSecretMissing == Err("secret key is missing", {"ErrSecretMissing"})

\* fmt.Errorf("...%w...", err)
Wrap(msg, err) == Err(msg, err.is)

----------------------------------------------------------------------------
(* crypto/hmac, crypto/sha256, crypto/aes, crypto/cipher *)

secretLength == 32

\* sha256.Size
SignatureSize == 32

\* aesGCM.NonceSize()
NonceSize == 12

\* aesGCM.Overhead(): the authentication tag Seal appends
TagSize == 16

\* mac.Sum(nil): HMAC-SHA256 over msg under key k.  Idealised: the 32 bytes
\* spell out the key and the message, so the tags of two messages agree only
\* if key and message agree (for messages of up to 28 bytes).
Hmac(k, msg) ==
    LET m == Len(msg)
    IN  [i \in 1..SignatureSize |->
            IF i = 1 THEN Len(k) % 256
            ELSE IF i = 2 THEN (IF k = <<>> THEN 0 ELSE k[1])
            ELSE IF i = 3 THEN m % 256
            ELSE IF i = 4 THEN (m \div 256) % 256
            ELSE IF i - 4 <= m THEN msg[i - 4] ELSE 0]

\* hmac.Equal
Equal(x, y) == x = y

\* aes.NewCipher: AES-128, AES-192 or AES-256
NewCipherOk(k) == Len(k) \in {16, 24, 32}

\* The counter-mode key stream of AES-GCM: a byte for each position that
\* depends on key and nonce.
KeyStream(k, nonce, i) == (k[1] + nonce[((i - 1) % NonceSize) + 1] + i) % 256

GcmCrypt(k, nonce, text) ==
    [i \in 1..Len(text) |-> Xor8(text[i], KeyStream(k, nonce, i))]

RECURSIVE WeightedSum(_)
WeightedSum(s) == IF s = <<>> THEN 0 ELSE Len(s) * s[Len(s)] + WeightedSum(SubSeq(s, 1, Len(s) - 1))

\* The authentication tag of AES-GCM over nonce and ciphertext under key k.
\* Idealised: the 16 bytes spell out the key, two check sums of the nonce
\* and the ciphertext, so the tags of two sealings agree only if key and
\* ciphertext agree and the check sums do not tell the nonces apart
\* (ciphertexts of up to 12 bytes).
GcmTag(k, nonce, ct) ==
    [i \in 1..TagSize |->
        IF i = 1 THEN k[1]
        ELSE IF i = 2 THEN SumBytes(nonce) % 256
        ELSE IF i = 3 THEN WeightedSum(nonce) % 256
        ELSE IF i = 4 THEN Len(ct) % 256
        ELSE IF i - 4 <= Len(ct) THEN ct[i - 4] ELSE 0]

\* aesGCM.Seal(nonce, nonce, plaintext, nil): nonce || ciphertext || tag
Seal(k, nonce, plaintext) ==
    LET ct == GcmCrypt(k, nonce, plaintext)
    IN  nonce \o ct \o GcmTag(k, nonce, ct)

\* Sealings under the first secret that no write of the model made, of
\* texts that are not "<identity>:<value>": "xyz" and "x:c".
ForeignSealed ==
    {[key |-> Rep(secretLength, 1), nonce |-> Rep(NonceSize, 17), plaintext |-> t] :
        t \in {<<120, 121, 122>>, <<120, 58, 99>>}}

\* Whether a holder of the secret k has sealed, with this nonce, the text
\* that ct is the ciphertext of.
IsSealed(k, nonce, ct) ==
    \/ \E e \in ForeignSealed :
          e.key = k /\ e.nonce = nonce /\ GcmCrypt(k, nonce, e.plaintext) = ct
    \/ \E h \in headers :
          /\ h.call.op = "WriteEncrypted"
          /\ h.call.secretKey = k
          /\ h.call.nonce = nonce
          /\ Len(ct) + NonceSize + TagSize = Len(DecodeString(h.cookie.Value).bytes)
          /\ SubSeq(DecodeString(h.cookie.Value).bytes, NonceSize + 1, NonceSize + Len(ct)) = ct

\* aesGCM.Open(nil, nonce, ciphertext, nil): the tag over what arrived must
\* be the tag that arrived; every failure is the same error.  Idealised: no
\* tag fits a ciphertext that no holder of the key has sealed.
Open(k, nonce, ciphertext) ==
    LET n == Len(ciphertext) - TagSize
        ct == SubSeq(ciphertext, 1, n)
        tag == SubSeq(ciphertext, n + 1, Len(ciphertext))
    IN  IF n < 0 \/ tag # GcmTag(k, nonce, ct) \/ ~IsSealed(k, nonce, ct)
        THEN [err |-> Err("cipher: message authentication failed", {"errOpen"}),
              plaintext |-> <<>>]
        ELSE [err |-> Nil, plaintext |-> GcmCrypt(k, nonce, ct)]

----------------------------------------------------------------------------
(* net/http *)

Separators == {40, 41, 60, 62, 64, 44, 59, 58, 92, 34, 47, 91, 93, 63, 61, 123, 125}

\* isCookieNameValid: a non-empty token
IsToken(name) ==
    /\ name # <<>>
    /\ \A i \in 1..Len(name) : name[i] \in 33..126 /\ name[i] \notin Separators

\* validCookieValueByte
ValidCookieValue(v) ==
    \A i \in 1..Len(v) : v[i] \in 32..126 /\ v[i] \notin {34, 59, 92}

\* "; HttpOnly" and "; Secure"
AttrHttpOnly == <<59, 32, 72, 116, 116, 112, 79, 110, 108, 121>>

AttrSecure == <<59, 32, 83, 101, 99, 117, 114, 101>>

\* (*http.Cookie).String: the Set-Cookie line, empty for a cookie whose name
\* is no token.
String(c) ==
    IF ~IsToken(c.Name) THEN <<>>
    ELSE c.Name \o <<61>> \o c.Value
         \o (IF c.HttpOnly THEN AttrHttpOnly ELSE <<>>)
         \o (IF c.Secure THEN AttrSecure ELSE <<>>)

\* http.SetCookie adds the header only for a cookie that serialises.
SetCookie(c) == IF String(c) = <<>> THEN {} ELSE {c}

\* (*http.Request).Cookie
RequestCookie(r, name) ==
    IF r.present /\ r.Name = name /\ IsToken(name) /\ ValidCookieValue(r.Value)
    THEN [err |-> Nil, Value |-> r.Value]
    ELSE [err |-> Err("http: named cookie not present", {"ErrNoCookie"}),
          Value |-> <<>>]

----------------------------------------------------------------------------
(* package cookie *)

MaxCookieLen == 4096

\* len(cookie.String()) > 4096
TooLong(c) == Len(String(c)) > MaxCookieLen

\* Write: what it returns and what it sets on the response.
Write(cookie) ==
    LET c == [cookie EXCEPT !.Value = EncodeToString(cookie.Value)]
    IN  IF TooLong(c)
        THEN [err |-> Wrap("cookie value too long", ErrCookie), set |-> {}]
        ELSE [err |-> Nil, set |-> SetCookie(c)]

Read(r, name) ==
    LET c == RequestCookie(r, name)
        d == DecodeString(c.Value)
    IN  IF c.err # Nil THEN [err |-> Wrap("not found", c.err), value |-> <<>>]
        ELSE IF ~d.ok
        THEN [err |-> Err("cannot decode", {"CorruptInputError"}), value |-> <<>>]
        ELSE [err |-> Nil, value |-> d.bytes]

\* A check for the secret that never finds it missing.
SecretNeverMissing(secretKey) == FALSE

\* len(secretKey) == 0
SecretMissing(secretKey) == Len(secretKey) = 0

\* A tag over the value alone.
SignedMessageValueOnly(name, value) == value

\* mac.Write([]byte(name)); mac.Write([]byte(value)): what the tag is over
SignedMessage(name, value) == name \o value

\* The signature behind the value instead of in front of it.
SignedValueSwapped(signature, value) == value \o signature

\* fmt.Sprintf("%s%s", string(signature), cookie.Value)
SignedValue(signature, value) == signature \o value

WriteSigned(cookie, secretKey) ==
    IF SecretMissing(secretKey) THEN [err |-> ErrSecretMissing, set |-> {}]
    ELSE LET signature == Hmac(secretKey, SignedMessage(cookie.Name, cookie.Value))
         IN  Write([cookie EXCEPT !.Value = SignedValue(signature, cookie.Value)])

\* Whether a holder of the secret k has put its tag on msg: whether a
\* WriteSigned under k has signed msg and sent it out.
IsSigned(k, msg) ==
    \E h \in headers :
        /\ h.call.op = "WriteSigned"
        /\ h.call.secretKey = k
        /\ SignedMessage(h.call.cookie.Name, h.call.cookie.Value) = msg

\* mac.Sum(nil) on the reading side.  Idealised: the tag of a message that
\* no holder of the key has signed is a tag no client has: it equals nothing
\* that a request can carry.
ExpectedHmac(k, msg) ==
    IF IsSigned(k, msg) THEN Hmac(k, msg) ELSE Rep(SignatureSize, 256)

ReadSigned(r, name, secretKey) ==
    LET got == Read(r, name)
        signedValue == got.value
        signature == SubSeq(signedValue, 1, SignatureSize)
        value == SubSeq(signedValue, SignatureSize + 1, Len(signedValue))
        expectedSignature == ExpectedHmac(secretKey, SignedMessage(name, value))
    IN  IF SecretMissing(secretKey) THEN [err |-> ErrSecretMissing, value |-> <<>>]
        ELSE IF got.err # Nil
        THEN [err |-> Err(got.err.msg, ErrCookie.is \cup got.err.is), value |-> <<>>]
        ELSE IF Len(signedValue) < SignatureSize
        THEN [err |-> Wrap("signature wrong length", ErrCookie), value |-> <<>>]
        ELSE IF ~Equal(signature, expectedSignature)
        THEN [err |-> Wrap("signature mismatch", ErrCookie), value |-> <<>>]
        ELSE [err |-> Nil, value |-> value]

\* Identity and value without the separator between them.
PlaintextNoSeparator(userID, value) == Itoa(userID) \o value

\* fmt.Sprintf("%d:%s", userID, cookie.Value)
Plaintext(userID, value) == Itoa(userID) \o <<58>> \o value

\* nonce is what io.ReadFull(rand.Reader, nonce) read.
WriteEncrypted(userID, cookie, secretKey, nonce) ==
    IF ~NewCipherOk(secretKey)
    THEN [err |-> Err("unable to create new cypher block for write", {"KeySizeError"}),
          set |-> {}]
    ELSE LET plaintext == Plaintext(userID, cookie.Value)
             encryptedValue == Seal(secretKey, nonce, plaintext)
         IN  Write([cookie EXCEPT !.Value = encryptedValue])

ReadEncrypted(r, name, secretKey) ==
    LET got == Read(r, name)
        encryptedValue == got.value
        nonce == SubSeq(encryptedValue, 1, NonceSize)
        ciphertext == SubSeq(encryptedValue, NonceSize + 1, Len(encryptedValue))
        opened == Open(secretKey, nonce, ciphertext)
        cut == Cut(opened.plaintext)
        id == Atoi(cut.before)
    IN  IF got.err # Nil
        THEN [err |-> Wrap("unable to read encrypted cookie", got.err),
              id |-> 0, value |-> <<>>]
        ELSE IF ~NewCipherOk(secretKey)
        THEN [err |-> Err("unable to create new cypher block for read", {"KeySizeError"}),
              id |-> 0, value |-> <<>>]
        ELSE IF Len(encryptedValue) < NonceSize
        THEN [err |-> Wrap("encrypted value too short", ErrCookie),
              id |-> 0, value |-> <<>>]
        ELSE IF opened.err # Nil
        THEN [err |-> Wrap("unable to decrypt cookie", opened.err),
              id |-> 0, value |-> <<>>]
        ELSE IF ~cut.found
        THEN [err |-> Wrap("unable to split plaintext", ErrCookie),
              id |-> 0, value |-> <<>>]
        ELSE IF ~id.ok
        THEN [err |-> Err("invalid id", ErrCookie.is \cup {"NumError"}),
              id |-> 0, value |-> cut.after]
        ELSE [err |-> Nil, id |-> id.n, value |-> cut.after]

----------------------------------------------------------------------------
(* The inputs of the model *)

\* How many writes are called on the response.
MaxWrites == 1

\* Identities run over -MaxId..MaxId.
MaxId == 1

\* "a", "ab"
Names == {<<97>>, <<97, 98>>}

\* "", "c", "bc", and a byte that is no text
Values == {<<>>, <<99>>, <<98, 99>>, <<255>>}

Key(b) == Rep(secretLength, b)

\* Two secrets as NewCookieSecret makes them.
SecretKeys == {Key(1), Key(2)}

\* ... and no secret.
Keys == SecretKeys \cup {<<>>}

\* What the random source may deliver.
Nonces == {Rep(NonceSize, 17), Rep(NonceSize, 34)}

Ids == (0 - MaxId)..MaxId

Cookie(name, value) ==
    [Name |-> name, Value |-> value, HttpOnly |-> FALSE, Secure |-> FALSE]

----------------------------------------------------------------------------
(* The state machine *)

NoRequest ==
    [present |-> FALSE, Name |-> <<>>, Value |-> <<>>, from |-> {}, how |-> "none"]

\* A call and its outcome.  cookie, secretKey, userID and nonce are the
\* arguments (for the reads, cookie.Name is the name argument); err, id and
\* value are what it returned.
Called(op, cookie, secretKey, userID, nonce, err, id, value) ==
    [op |-> op, cookie |-> cookie, secretKey |-> secretKey, userID |-> userID,
     nonce |-> nonce, err |-> err, id |-> id, value |-> value]

NoCall == Called("none", Cookie(<<>>, <<>>), <<>>, 0, <<>>, Nil, 0, <<>>)

\* The headers a write adds: each cookie it set, with the call that set it.
Emitted(set, call) == {[cookie |-> c, call |-> call] : c \in set}

Init ==
    /\ headers = {}
    /\ writes = 0
    /\ req = NoRequest
    /\ last = NoCall

CallWrite(cookie) ==
    LET w == Write(cookie)
        call == Called("Write", cookie, <<>>, 0, <<>>, w.err, 0, <<>>)
    IN  /\ writes < MaxWrites
        /\ writes' = writes + 1
        /\ headers' = headers \cup Emitted(w.set, call)
        /\ last' = call
        /\ UNCHANGED req

CallWriteSigned(cookie, secretKey) ==
    LET w == WriteSigned(cookie, secretKey)
        call == Called("WriteSigned", cookie, secretKey, 0, <<>>, w.err, 0, <<>>)
    IN  /\ writes < MaxWrites
        /\ writes' = writes + 1
        /\ headers' = headers \cup Emitted(w.set, call)
        /\ last' = call
        /\ UNCHANGED req

CallWriteEncrypted(userID, cookie, secretKey, nonce) ==
    LET w == WriteEncrypted(userID, cookie, secretKey, nonce)
        call == Called("WriteEncrypted", cookie, secretKey, userID, nonce, w.err, 0, <<>>)
    IN  /\ writes < MaxWrites
        /\ writes' = writes + 1
        /\ headers' = headers \cup Emitted(w.set, call)
        /\ last' = call
        /\ UNCHANGED req

CallReadSigned(name, secretKey) ==
    LET r == ReadSigned(req, name, secretKey)
    IN  /\ last' = Called("ReadSigned", Cookie(name, <<>>), secretKey, 0, <<>>,
                          r.err, 0, r.value)
        /\ UNCHANGED <<headers, writes, req>>

CallReadEncrypted(name, secretKey) ==
    LET r == ReadEncrypted(req, name, secretKey)
    IN  /\ last' = Called("ReadEncrypted", Cookie(name, <<>>), secretKey, 0, <<>>,
                          r.err, r.id, r.value)
        /\ UNCHANGED <<headers, writes, req>>

\* The client sends a cookie of the response back as it got it.
Present(h) ==
    /\ req' = [present |-> TRUE, Name |-> h.cookie.Name, Value |-> h.cookie.Value,
               from |-> {h}, how |-> "intact"]
    /\ last' = NoCall
    /\ UNCHANGED <<headers, writes>>

\* The client sends the value of a cookie back under another name.
PresentAs(h, name) ==
    /\ name # h.cookie.Name
    /\ req' = [present |-> TRUE, Name |-> name, Value |-> h.cookie.Value,
               from |-> {h}, how |-> "renamed"]
    /\ last' = NoCall
    /\ UNCHANGED <<headers, writes>>

\* One bit of the value on its way back is flipped: bit b of character i.
Flip(i, b) ==
    /\ req.how = "intact"
    /\ req' = [req EXCEPT !.Value[i] = FlipBit(@, b), !.how = "flipped"]
    /\ last' = NoCall
    /\ UNCHANGED <<headers, writes>>

\* The client keeps the signature of a signed cookie and sends it back in
\* front of a value of its choice, under a name of its choice.
Recut(h, name, value) ==
    /\ h.call.op = "WriteSigned"
    /\ <<name, value>> # <<h.call.cookie.Name, h.call.cookie.Value>>
    /\ LET payload == DecodeString(h.cookie.Value).bytes
       IN  req' = [present |-> TRUE, Name |-> name,
                   Value |-> EncodeToString(SubSeq(payload, 1, SignatureSize) \o value),
                   from |-> {h}, how |-> "recut"]
    /\ last' = NoCall
    /\ UNCHANGED <<headers, writes>>

\* The request carries a cookie that no write of this run made.
PresentForeign(name, payload) ==
    /\ req' = [present |-> TRUE, Name |-> name, Value |-> EncodeToString(payload),
               from |-> {}, how |-> "foreign"]
    /\ last' = NoCall
    /\ UNCHANGED <<headers, writes>>

(* Signed cookies between server and an honest client. *)
Next ==
    \/ \E n \in Names, v \in Values, k \in SecretKeys : CallWriteSigned(Cookie(n, v), k)
    \/ \E n \in Names, k \in SecretKeys : CallReadSigned(n, k)
    \/ \E h \in headers : Present(h)
    \/ \E h \in headers, n \in Names : PresentAs(h, n)

Spec == Init /\ [][Next]_vars

----------------------------------------------------------------------------
(* Signed cookies between server and a client that tampers. *)

\* "c", "bc"
TamperValues == {<<99>>, <<98, 99>>}

NextTamper ==
    \/ \E n \in Names, v \in TamperValues, k \in SecretKeys :
          CallWriteSigned(Cookie(n, v), k)
    \/ \E n \in Names, k \in SecretKeys : CallReadSigned(n, k)
    \/ \E h \in headers : Present(h)
    \/ \E i \in 1..Len(req.Value), b \in 0..7 : Flip(i, b)
    \/ \E h \in headers, n \in Names, v \in TamperValues : Recut(h, n, v)

SpecTamper == Init /\ [][NextTamper]_vars

----------------------------------------------------------------------------
(* Encrypted cookies between server and an honest client. *)

\* "a"
EncNames == {<<97>>}

\* "", ":c"
EncValues == {<<>>, <<58, 99>>}

NextEnc ==
    \/ \E i \in Ids, n \in EncNames, v \in EncValues, k \in SecretKeys, nonce \in Nonces :
          CallWriteEncrypted(i, Cookie(n, v), k, nonce)
    \/ \E n \in EncNames, k \in SecretKeys : CallReadEncrypted(n, k)
    \/ \E h \in headers : Present(h)

SpecEnc == Init /\ [][NextEnc]_vars

----------------------------------------------------------------------------
(* Encrypted cookies between server and a client that tampers. *)

\* Payloads the client may send that WriteEncrypted never made: a blob
\* shorter than a nonce, and what some other holder of the secret sealed.
Foreign == {Rep(5, 7)} \cup {Seal(e.key, e.nonce, e.plaintext) : e \in ForeignSealed}

NextEncTamper ==
    \/ \E i \in Ids, n \in EncNames, v \in EncValues, k \in SecretKeys, nonce \in Nonces :
          CallWriteEncrypted(i, Cookie(n, v), k, nonce)
    \/ \E n \in EncNames, k \in SecretKeys : CallReadEncrypted(n, k)
    \/ \E h \in headers : Present(h)
    \/ \E i \in 1..Len(req.Value), b \in 0..7 : Flip(i, b)
    \/ \E n \in EncNames, p \in Foreign : PresentForeign(n, p)

SpecEncTamper == Init /\ [][NextEncTamper]_vars

----------------------------------------------------------------------------
(* The four keyed calls, with and without a secret. *)

\* "c"
KeyedValues == {<<99>>}

NextKeys ==
    \/ \E n \in Names, v \in KeyedValues, k \in Keys : CallWriteSigned(Cookie(n, v), k)
    \/ \E i \in {0 - MaxId, MaxId}, n \in Names, v \in KeyedValues, k \in Keys :
          CallWriteEncrypted(i, Cookie(n, v), k, Rep(NonceSize, 17))
    \/ \E n \in Names, k \in Keys : CallReadSigned(n, k)
    \/ \E n \in Names, k \in Keys : CallReadEncrypted(n, k)
    \/ \E h \in headers : Present(h)
    \/ \E h \in headers, n \in Names : PresentAs(h, n)

SpecKeys == Init /\ [][NextKeys]_vars

----------------------------------------------------------------------------
(* The three writes, with cookies about as large as a cookie may be. *)

\* "a", "abc", and a name that is no token: ""
SizeNames == {<<97>>, <<97, 98, 99>>, <<>>}

\* Lengths of the value around the largest that still fits: Write takes up
\* to 3069 bytes, WriteSigned 32 less, WriteEncrypted 30 or 31 less.
SizeLens == {0, 3037, 3038, 3039, 3040, 3069, 3070}

SizeCookies ==
    {[Name |-> n, Value |-> Rep(l, 120), HttpOnly |-> h, Secure |-> x] :
        n \in SizeNames, l \in SizeLens, h \in BOOLEAN, x \in BOOLEAN}

NextSize ==
    \/ \E c \in SizeCookies : CallWrite(c)
    \/ \E c \in SizeCookies : CallWriteSigned(c, Key(1))
    \/ \E i \in {0 - MaxId, MaxId}, c \in SizeCookies :
          CallWriteEncrypted(i, c, Key(1), Rep(NonceSize, 17))

SpecSize == Init /\ [][NextSize]_vars

----------------------------------------------------------------------------
(* What the claims speak of *)

Writes == {"Write", "WriteSigned", "WriteEncrypted"}

\* The request carries what the write h set, changed as `how` says, and the
\* last call read it with `op` under the name it now has.
ReadBack(h, how, op) ==
    /\ h \in req.from
    /\ req.how = how
    /\ last.op = op
    /\ last.cookie.Name = req.Name

\* What WriteSigned has signed and handed out: (name, value, key).
Signed ==
    {<<h.call.cookie.Name, h.call.cookie.Value, h.call.secretKey>> :
        h \in {g \in headers : g.call.op = "WriteSigned"}}

\* Whether the call gets as far as Write.
ReachesWrite(call) ==
    CASE call.op = "Write" -> TRUE
      [] call.op = "WriteSigned" -> Len(call.secretKey) # 0
      [] call.op = "WriteEncrypted" -> Len(call.secretKey) \in {16, 24, 32}
      [] OTHER -> FALSE

\* The cookie the write is to put on the response: the cookie it was given,
\* with the whole payload in base64 as its value.
Sent(call) ==
    LET payload ==
            CASE call.op = "WriteSigned" ->
                    Hmac(call.secretKey, call.cookie.Name \o call.cookie.Value)
                        \o call.cookie.Value
              [] call.op = "WriteEncrypted" ->
                    Seal(call.secretKey, call.nonce,
                         Itoa(call.userID) \o <<58>> \o call.cookie.Value)
              [] OTHER -> call.cookie.Value
    IN  [call.cookie EXCEPT !.Value = EncodeToString(payload)]

EmittedBy(call) == {h \in headers : h.call = call}

----------------------------------------------------------------------------
(* Signed cookies: specifications Spec and SpecTamper *)

\* C1: a cookie that WriteSigned emitted under a 32-byte secret and that
\* comes back unchanged is read by ReadSigned, with the same name and the
\* same secret, as exactly the value that was written, without error.
SignedRoundTrip ==
    \A h \in headers :
        (/\ h.call.op = "WriteSigned"
         /\ ReadBack(h, "intact", "ReadSigned")
         /\ last.secretKey = h.call.secretKey)
        => /\ last.err = Nil
           /\ last.value = h.call.cookie.Value

\* The value "bc" under the name "ab" has come back through ReadSigned.
SignedRoundTripWitness ==
    \E h \in headers :
        /\ h.call.op = "WriteSigned"
        /\ ReadBack(h, "intact", "ReadSigned")
        /\ last.secretKey = h.call.secretKey
        /\ h.call.cookie = Cookie(<<97, 98>>, <<98, 99>>)
        /\ last.err = Nil
        /\ last.value = <<98, 99>>

\* C3 (that the read fails): after one bit of the transported value of a
\* signed cookie with a non-empty value was flipped, ReadSigned with the
\* same name and secret returns a CookieError and no value.
SignedTamperDetected ==
    \A h \in headers :
        (/\ h.call.op = "WriteSigned"
         /\ h.call.cookie.Value # <<>>
         /\ ReadBack(h, "flipped", "ReadSigned")
         /\ last.secretKey = h.call.secretKey)
        => /\ "ErrCookie" \in last.err.is
           /\ last.value = <<>>

\* What does hold of a flipped bit: the read fails with a CookieError, or the
\* flipped text still decodes to the payload that was written and the read
\* returns the value that was written.
SignedFlipOutcomes ==
    \A h \in headers :
        (/\ h.call.op = "WriteSigned"
         /\ ReadBack(h, "flipped", "ReadSigned")
         /\ last.secretKey = h.call.secretKey)
        => \/ /\ last.err.msg \in {"signature mismatch", "cannot decode", "not found"}
              /\ "ErrCookie" \in last.err.is
              /\ last.value = <<>>
           \/ /\ last.err = Nil
              /\ last.value = h.call.cookie.Value
              /\ req.Value # h.cookie.Value
              /\ DecodeString(req.Value) = DecodeString(h.cookie.Value)

\* C5: the unchanged payload of a cookie that WriteSigned emitted under the
\* name a, sent back under another name b, fails the verification of
\* ReadSigned(b) under the same secret: signature mismatch, no value.
CrossNameRejected ==
    \A h \in headers :
        (/\ h.call.op = "WriteSigned"
         /\ ReadBack(h, "renamed", "ReadSigned")
         /\ last.secretKey = h.call.secretKey)
        => /\ last.err = Wrap("signature mismatch", ErrCookie)
           /\ last.value = <<>>

\* The payload signed for "a" with the value "bc" was refused under "ab".
CrossNameRejectedWitness ==
    \E h \in headers :
        /\ h.call.op = "WriteSigned"
        /\ h.call.cookie = Cookie(<<97>>, <<98, 99>>)
        /\ ReadBack(h, "renamed", "ReadSigned")
        /\ req.Name = <<97, 98>>
        /\ last.secretKey = h.call.secretKey
        /\ last.err.msg = "signature mismatch"

\* C10: ReadSigned returns a value v for the name n under the secret k only
\* if WriteSigned has signed exactly the pair (n, v) under k.
SignedPairsOnly ==
    (last.op = "ReadSigned" /\ last.err = Nil)
    => <<last.cookie.Name, last.value, last.secretKey>> \in Signed

----------------------------------------------------------------------------
(* Encrypted cookies: specifications SpecEnc and SpecEncTamper *)

\* C2: a cookie that WriteEncrypted emitted for the identity i and the value
\* v and that comes back unchanged is read by ReadEncrypted, with the same
\* name and the same secret, as exactly (i, v), without error.
EncryptedRoundTrip ==
    \A h \in headers :
        (/\ h.call.op = "WriteEncrypted"
         /\ ReadBack(h, "intact", "ReadEncrypted")
         /\ last.secretKey = h.call.secretKey)
        => /\ last.err = Nil
           /\ last.id = h.call.userID
           /\ last.value = h.call.cookie.Value

\* The identity -1 with the value ":c" has come back through ReadEncrypted.
EncryptedRoundTripWitness ==
    \E h \in headers :
        /\ h.call.op = "WriteEncrypted"
        /\ ReadBack(h, "intact", "ReadEncrypted")
        /\ last.secretKey = h.call.secretKey
        /\ h.call.userID = -1
        /\ h.call.cookie.Value = <<58, 99>>
        /\ last.err = Nil
        /\ last.id = -1
        /\ last.value = <<58, 99>>

\* C4 (that the read fails): ReadEncrypted of a cookie that WriteEncrypted
\* emitted for a non-empty value fails and returns neither identity nor
\* value when one bit of the transported value was flipped or the secret is
\* another 32-byte secret.
EncryptedTamperDetected ==
    \A h \in headers :
        (/\ h.call.op = "WriteEncrypted"
         /\ h.call.cookie.Value # <<>>
         /\ \/ ReadBack(h, "flipped", "ReadEncrypted")
            \/ /\ ReadBack(h, "intact", "ReadEncrypted")
               /\ last.secretKey # h.call.secretKey)
        => /\ last.err # Nil
           /\ last.id = 0
           /\ last.value = <<>>

\* What does hold: another secret always fails to decrypt; a flipped bit
\* fails, or the flipped text still decodes to the payload that was written
\* and the read returns what was written.  Never a wrong identity or value.
EncryptedFlipOutcomes ==
    \A h \in headers :
        (/\ h.call.op = "WriteEncrypted"
         /\ \/ ReadBack(h, "flipped", "ReadEncrypted")
            \/ ReadBack(h, "intact", "ReadEncrypted"))
        => \/ /\ last.err.msg \in {"unable to decrypt cookie",
                                   "unable to read encrypted cookie"}
              /\ last.id = 0
              /\ last.value = <<>>
           \/ /\ last.err = Nil
              /\ last.secretKey = h.call.secretKey
              /\ last.id = h.call.userID
              /\ last.value = h.call.cookie.Value
              /\ DecodeString(req.Value) = DecodeString(h.cookie.Value)

\* C9: every failure of ReadEncrypted over the content of the cookie wraps
\* ErrCookie: a blob shorter than the nonce, a failed open, a plaintext
\* without separator, an identity that is no integer.
ContentFailuresAreCookieErrors ==
    (/\ last.op = "ReadEncrypted"
     /\ last.err.msg \in {"encrypted value too short", "unable to decrypt cookie",
                          "unable to split plaintext", "invalid id"})
    => "ErrCookie" \in last.err.is

\* What does hold: the failures other than the failed open wrap ErrCookie,
\* and the failed open is one and the same error whatever made it fail.
OtherContentFailuresAreCookieErrors ==
    /\ (/\ last.op = "ReadEncrypted"
        /\ last.err.msg \in {"encrypted value too short",
                             "unable to split plaintext", "invalid id"})
       => "ErrCookie" \in last.err.is
    /\ (last.op = "ReadEncrypted" /\ last.err.msg = "unable to decrypt cookie")
       => last.err = Err("unable to decrypt cookie", {"errOpen"})

----------------------------------------------------------------------------
(* The keyed calls without a secret: specification SpecKeys *)

\* C7: without a secret WriteSigned and ReadSigned return ErrSecretMissing,
\* WriteEncrypted and ReadEncrypted return an error, none of them returns a
\* value or an identity, and no cookie on the response comes from a keyed
\* write without a secret.
MissingSecretIsError ==
    /\ (last.op \in {"WriteSigned", "ReadSigned"} /\ last.secretKey = <<>>)
       => last.err = ErrSecretMissing
    /\ (last.op \in {"WriteEncrypted", "ReadEncrypted"} /\ last.secretKey = <<>>)
       => last.err # Nil
    /\ (last.op # "none" /\ last.secretKey = <<>>)
       => (last.value = <<>> /\ last.id = 0 /\ EmittedBy(last) = {})
    /\ \A h \in headers : h.call.secretKey # <<>>

\* ReadSigned without a secret has refused a cookie that is on the request
\* just as WriteSigned emitted it.
MissingSecretIsErrorWitness ==
    \E h \in headers :
        /\ h.call.op = "WriteSigned"
        /\ ReadBack(h, "intact", "ReadSigned")
        /\ last.secretKey = <<>>
        /\ last.err = ErrSecretMissing

----------------------------------------------------------------------------
(* The size limit: specification SpecSize *)

\* C6: every cookie on the response is the whole cookie its write was to
\* send and serialises to at most 4096 bytes; a write whose cookie serialises
\* to more returns the CookieError and emits nothing; a write that gets as
\* far as Write with a cookie that serialises to at most 4096 bytes emits it.
SizeCeiling ==
    /\ \A h \in headers :
          /\ Len(String(h.cookie)) <= MaxCookieLen
          /\ h.cookie = Sent(h.call)
    /\ (last.op \in Writes /\ ReachesWrite(last)
        /\ Len(String(Sent(last))) > MaxCookieLen)
       => /\ last.err = Wrap("cookie value too long", ErrCookie)
          /\ EmittedBy(last) = {}
    /\ (last.op \in Writes /\ ReachesWrite(last)
        /\ Len(String(Sent(last))) <= MaxCookieLen)
       => EmittedBy(last) = {[cookie |-> Sent(last), call |-> last]}

\* What does hold: the same of the cookies whose name is a token.  A cookie
\* whose name is none is never emitted, and its write returns no error.
SizeCeilingOfTokens ==
    /\ \A h \in headers :
          /\ Len(String(h.cookie)) <= MaxCookieLen
          /\ h.cookie = Sent(h.call)
    /\ (last.op \in Writes /\ ReachesWrite(last) /\ IsToken(last.cookie.Name)
        /\ Len(String(Sent(last))) > MaxCookieLen)
       => /\ last.err = Wrap("cookie value too long", ErrCookie)
          /\ EmittedBy(last) = {}
    /\ (last.op \in Writes /\ ReachesWrite(last) /\ IsToken(last.cookie.Name)
        /\ Len(String(Sent(last))) <= MaxCookieLen)
       => /\ last.err = Nil
          /\ EmittedBy(last) = {[cookie |-> Sent(last), call |-> last]}
    /\ (last.op \in Writes /\ ReachesWrite(last) /\ ~IsToken(last.cookie.Name))
       => /\ last.err = Nil
          /\ EmittedBy(last) = {}

\* A cookie of exactly 4096 bytes is on the response.
LargestCookieEmitted ==
    \E h \in headers : Len(String(h.cookie)) = MaxCookieLen

====
